---------------------------- MODULE Spec2Model ----------------------------
(***************************************************************************)
(* Model of numba's typed IR nodes (numba/nodes.py) and of the type        *)
(* mappers (numba/_numba_types.py).                                        *)
(*                                                                         *)
(* The module holds one specification per component:                       *)
(*   Spec          DataPointerNode.subscript (the address calculator)      *)
(*   SpecCall      FunctionCallNode / NativeCallNode / ObjectCallNode      *)
(*   SpecTemp      TempNode, its load/store views, ObjectTempNode          *)
(*   SpecThreads   TempNode construction by parallel compilation threads   *)
(*   SpecTypes     _map_dtype and convert_to_ctypes                        *)
(*   SpecCoercion  CoercionNode / DeferredCoercionNode over Variables      *)
(*   SpecConst     ConstNode construction and ConstNode.value              *)
(* A specification leaves the variables of the other components at their   *)
(* idle values.                                                            *)
(*                                                                         *)
(* Python exceptions are values [kind |-> "raise", exc |-> <class name>].  *)
(***************************************************************************)
EXTENDS Integers, Sequences, FiniteSets

VARIABLES
    \* --- address calculator
    array,          \* the DataPointerNode being subscripted, with its runtime array
    indices,        \* the index argument of the subscript call
    ptr,            \* what the subscript call returned
    \* --- call nodes
    callArgs,       \* the signature and the arguments of the call being built
    callNode,       \* the call node built from them
    \* --- temporaries (sequential)
    temp_counter,   \* TempNode.temp_counter, the class attribute
    temps,          \* the TempNodes constructed so far, in order
    views,          \* the TempLoadNode / TempStoreNode views constructed so far
    others,         \* the ObjectTempNodes constructed so far
    \* --- temporaries (threads)
    pc,             \* per thread: where it is inside TempNode.__init__
    name_read,      \* per thread: the counter value read for the name (line 142)
    incr_read,      \* per thread: the counter value loaded by += (line 144)
    made,           \* per thread: the names of the TempNodes it has constructed
    \* --- type mappers
    dtype,          \* the numpy dtype handed to _map_dtype
    mapped,         \* the outcome of _map_dtype
    ctype_arg,      \* the Type handed to convert_to_ctypes
    ctype,          \* the outcome of convert_to_ctypes
    \* --- coercions
    variables,      \* the heap of symtab Variables: index -> [type]
    coercions,      \* the coercion nodes constructed so far
    bound,          \* per coercion node: the constructor's second argument
    \* --- constants
    constNode,      \* the ConstNode last constructed
    lvalue          \* what ConstNode.value returned for it

subVars      == <<array, indices, ptr>>
callVars     == <<callArgs, callNode>>
tempVars     == <<temp_counter, temps, views, others>>
threadVars   == <<pc, name_read, incr_read, made>>
typeVars     == <<dtype, mapped, ctype_arg, ctype>>
coercionVars == <<variables, coercions, bound>>
constVars    == <<constNode, lvalue>>
vars == <<subVars, callVars, tempVars, threadVars, typeVars, coercionVars, constVars>>

None == [kind |-> "none"]
Raise(exc) == [kind |-> "raise", exc |-> exc]

(***************************************************************************)
(* Bounds of the model.                                                    *)
(***************************************************************************)
MaxRank == 3
MaxArgs == 3
MaxTemps == 11
MaxViews == 2
MaxOthers == 1
MaxPerThread == 2
MaxItemSize == 32
MaxVariables == 2
MaxCoercions == 2

(***************************************************************************)
(* Python built-ins used by the code.                                      *)
(***************************************************************************)
Min(a, b) == IF a <= b THEN a ELSE b

\* zip(a, b): pairs up to the shorter of the two
zip(a, b) == [i \in 1..Min(Len(a), Len(b)) |-> <<a[i], b[i]>>]

\* range(n) as a list: 0, 1, ..., n-1
range(n) == [i \in 1..n |-> i - 1]

\* reversed(s)
reversed(s) == [i \in 1..Len(s) |-> s[Len(s) + 1 - i]]

(***************************************************************************)
(* What each component leaves alone.                                       *)
(***************************************************************************)
notSubVars      == <<callVars, tempVars, threadVars, typeVars, coercionVars, constVars>>
notCallVars     == <<subVars, tempVars, threadVars, typeVars, coercionVars, constVars>>
notTempVars     == <<subVars, callVars, threadVars, typeVars, coercionVars, constVars>>
notThreadVars   == <<subVars, callVars, temps, views, others, typeVars, coercionVars, constVars>>
notTypeVars     == <<subVars, callVars, tempVars, threadVars, coercionVars, constVars>>
notCoercionVars == <<subVars, callVars, tempVars, threadVars, typeVars, constVars>>
notConstVars    == <<subVars, callVars, tempVars, threadVars, typeVars, coercionVars>>

(***************************************************************************)
(* The type model: the minitypes scalars behind the shorthands of          *)
(* _numba_types.py, as records. kind stands for the is_<kind> flag set.    *)
(***************************************************************************)
IntType(name, itemsize, signed) ==
    [kind |-> "int", name |-> name, itemsize |-> itemsize, signed |-> signed]
FloatType(name, itemsize) == [kind |-> "float", name |-> name, itemsize |-> itemsize]
ComplexType(name, itemsize, base_type) ==
    [kind |-> "complex", name |-> name, itemsize |-> itemsize, base_type |-> base_type]
ObjectType(name) == [kind |-> "object", name |-> name]
pointer(base_type) == [kind |-> "pointer", base_type |-> base_type]
CArrayType(base_type, size) == [kind |-> "carray", base_type |-> base_type, size |-> size]
ArrayType(dt, nd, c_contig, f_contig) ==
    [kind |-> "array", dtype |-> dt, ndim |-> nd,
     is_c_contig |-> c_contig, is_f_contig |-> f_contig]
FunctionType(return_type, args) ==
    [kind |-> "function", return_type |-> return_type, args |-> args]

O  == ObjectType("object")
i1 == IntType("int8", 1, TRUE)
i2 == IntType("int16", 2, TRUE)
i4 == IntType("int32", 4, TRUE)
i8 == IntType("int64", 8, TRUE)
u1 == IntType("uint8", 1, FALSE)
u2 == IntType("uint16", 2, FALSE)
u4 == IntType("uint32", 4, FALSE)
u8 == IntType("uint64", 8, FALSE)
f4 == FloatType("float", 4)
f8 == FloatType("double", 8)
f16 == FloatType("float128", 16)
c8 == ComplexType("complex64", 8, f4)
c16 == ComplexType("complex128", 16, f8)
c32 == ComplexType("complex256", 32, f16)
tuple_ == ObjectType("tuple")
module_type == ObjectType("module")
phi == [kind |-> "phi"]
void == [kind |-> "void"]
c_string_type == [kind |-> "c_string"]
Py_ssize_t == [kind |-> "py_ssize_t"]

is_float(type)      == type.kind = "float"
is_int(type)        == type.kind = "int"
is_complex(type)    == type.kind = "complex"
is_pointer(type)    == type.kind = "pointer"
is_object(type)     == type.kind = "object"
is_array(type)      == type.kind = "array"
is_function(type)   == type.kind = "function"
is_c_string(type)   == type.kind = "c_string"
is_py_ssize_t(type) == type.kind = "py_ssize_t"
is_void(type)       == type.kind = "void"
is_carray(type)     == type.kind = "carray"

IsRaise(r) == r.kind = "raise"

(***************************************************************************)
(* int(math.log(x, base)) for x >= 1, the base given as the fraction       *)
(* num/den: the largest k with (num/den)^k <= x.                           *)
(***************************************************************************)
RECURSIVE Pow(_, _)
Pow(b, k) == IF k = 0 THEN 1 ELSE b * Pow(b, k - 1)

RECURSIVE int_log_from(_, _, _, _)
int_log_from(x, num, den, k) ==
    IF Pow(num, k + 1) <= x * Pow(den, k + 1)
    THEN int_log_from(x, num, den, k + 1)
    ELSE k

\* int(math.log(x, 2))
int_log2(x) == int_log_from(x, 2, 1, 0)

\* int(math.log(x)): the natural logarithm; 193/71 = 2.71830... stands for e,
\* and (193/71)^k and e^k lie between the same two integers for k = 1..4
int_ln(x) == int_log_from(x, 193, 71, 0)

\* list[idx] of a Python list
list_index(list, idx) ==
    IF idx >= 0 /\ idx < Len(list) THEN list[idx + 1]
    ELSE IF idx < 0 /\ -idx <= Len(list) THEN list[Len(list) + idx + 1]
    ELSE Raise("IndexError")

(***************************************************************************)
(* _map_dtype: numpy dtype (kind letter, itemsize) -> Type                 *)
(***************************************************************************)
DtypeKinds == {"i", "u", "f", "b", "c", "O", "S", "V"}
\* numpy gives itemsize 0 only to the flexible kinds (np.dtype('S'), np.dtype('V'))
Dtypes ==
    [kind : DtypeKinds, itemsize : 1..MaxItemSize]
    \cup [kind : {"S", "V"}, itemsize : {0}]

_map_dtype(dt) ==
    IF dt.itemsize <= 0 THEN Raise("ValueError")      \* math.log(0, 2)
    ELSE
    LET item_idx == int_log2(dt.itemsize)
        unsupported == Raise("NotImplementedError")
    IN  CASE dt.kind = "i" -> list_index(<<i1, i2, i4, i8>>, item_idx)
          [] dt.kind = "u" -> list_index(<<u1, u2, u4, u8>>, item_idx)
          [] dt.kind = "f" ->
                IF dt.itemsize = 2 THEN unsupported
                ELSE IF dt.itemsize = 4 THEN f4
                ELSE IF dt.itemsize = 8 THEN f8
                ELSE IF dt.itemsize = 16 THEN f16
                ELSE unsupported
          [] dt.kind = "b" -> i1
          [] dt.kind = "c" ->
                IF dt.itemsize = 8 THEN c8
                ELSE IF dt.itemsize = 16 THEN c16
                ELSE IF dt.itemsize = 32 THEN c32
                ELSE unsupported
          [] dt.kind = "O" -> O
          [] OTHER -> unsupported

\* NumpyDtypeType.resolve
resolve(self) == _map_dtype(self.dtype)

(***************************************************************************)
(* convert_to_ctypes: Type -> ctypes representation                        *)
(***************************************************************************)
CT(name) == [kind |-> "ctype", name |-> name]

ScalarTypes == {i1, i2, i4, i8, u1, u2, u4, u8, f4, f8, f16, c8, c16, c32}
TypeArgs ==
    ScalarTypes
    \cup {O, tuple_, ArrayType(f8, 2, TRUE, FALSE), c_string_type, void, Py_ssize_t, phi}
    \cup {pointer(t) : t \in {i2, u4, f8, O, phi}}
    \cup {pointer(pointer(i8)), CArrayType(i4, 2), CArrayType(phi, 2)}
    \cup {FunctionType(i4, <<>>), FunctionType(void, <<i4, f8>>), FunctionType(phi, <<>>)}

RECURSIVE convert_to_ctypes(_)
convert_to_ctypes(type) ==
    IF is_pointer(type) THEN
        LET base == convert_to_ctypes(type.base_type)
        IN  IF IsRaise(base) THEN base
            ELSE [kind |-> "ctype", name |-> "POINTER", of |-> base]
    ELSE IF is_object(type) \/ is_array(type) THEN CT("py_object")
    ELSE IF is_float(type) THEN
        IF type.itemsize = 4 THEN CT("c_float")
        ELSE IF type.itemsize = 8 THEN CT("c_double")
        ELSE CT("c_longdouble")
    ELSE IF is_int(type) THEN
        LET item_idx == int_ln(type.itemsize)
            values == IF type.signed
                      THEN <<CT("c_int8"), CT("c_int16"), CT("c_int32"), CT("c_int64")>>
                      ELSE <<CT("c_uint8"), CT("c_uint16"), CT("c_uint32"), CT("c_uint64")>>
        IN  list_index(values, item_idx)
    ELSE IF is_complex(type) THEN
        IF type.itemsize = 8 THEN CT("Complex64")
        ELSE IF type.itemsize = 16 THEN CT("Complex128")
        ELSE CT("Complex256")
    ELSE IF is_c_string(type) THEN CT("c_char_p")
    ELSE IF is_function(type) THEN
        LET return_type == convert_to_ctypes(type.return_type)
        IN  IF IsRaise(return_type) THEN return_type
            ELSE IF type.args # <<>> THEN Raise("NameError")  \* covert_to_ctypes
            ELSE Raise("TypeError")      \* CFUNCTYPE(return_type, []): a list argtype
    ELSE IF is_py_ssize_t(type) THEN CT("c_uint_sizeof_py_ssize_t")
    ELSE IF is_void(type) THEN CT("None")
    ELSE IF is_carray(type) THEN
        LET base == convert_to_ctypes(type.base_type)
        IN  IF IsRaise(base) THEN base
            ELSE [kind |-> "ctype", name |-> "array", of |-> base, size |-> type.size]
    ELSE Raise("NotImplementedError")

\* The arguments are drawn; the mappers have not been called yet.
InitTypes ==
    /\ dtype \in Dtypes /\ mapped = None
    /\ ctype_arg \in TypeArgs /\ ctype = None
    /\ array = None /\ indices = None /\ ptr = None
    /\ callArgs = None /\ callNode = None
    /\ temp_counter = 0 /\ temps = <<>> /\ views = <<>> /\ others = <<>>
    /\ pc = <<>> /\ name_read = <<>> /\ incr_read = <<>> /\ made = <<>>
    /\ variables = <<>> /\ coercions = <<>> /\ bound = <<>>
    /\ constNode = None /\ lvalue = None

MapDtype ==
    /\ mapped = None
    /\ mapped' = _map_dtype(dtype)
    /\ UNCHANGED <<dtype, ctype_arg, ctype, notTypeVars>>

Resolve ==
    /\ mapped = None
    /\ mapped' = resolve([kind |-> "numpy_dtype", dtype |-> dtype])
    /\ UNCHANGED <<dtype, ctype_arg, ctype, notTypeVars>>

ConvertToCtypes ==
    /\ ctype = None
    /\ ctype' = convert_to_ctypes(ctype_arg)
    /\ UNCHANGED <<dtype, mapped, ctype_arg, notTypeVars>>

NextTypes == MapDtype \/ Resolve \/ ConvertToCtypes

SpecTypes == InitTypes /\ [][NextTypes]_vars

(***************************************************************************)
(* Claims about the type mappers (checked under SpecTypes).                *)
(***************************************************************************)
\* the (kind, itemsize) pairs of the supported table
SupportedDtype(dt) ==
    \/ dt.kind \in {"i", "u"} /\ dt.itemsize \in {1, 2, 4, 8}
    \/ dt.kind = "f" /\ dt.itemsize \in {4, 8, 16}
    \/ dt.kind = "b"
    \/ dt.kind = "c" /\ dt.itemsize \in {8, 16, 32}
    \/ dt.kind = "O"

\* C7: _map_dtype fails closed: for ('f', 2) and every other (kind, itemsize)
\* pair outside the supported table it raises the unsupported-element-type
\* error (NotImplementedError), never another error and never a Type.
C7_FailsClosed ==
    (mapped # None /\ ~SupportedDtype(dtype)) =>
        /\ mapped.kind = "raise"
        /\ mapped.exc = "NotImplementedError"

\* C8: for an integer Type of byte size n in {1, 2, 4, 8}, convert_to_ctypes
\* returns the fixed-width integer of exactly n bytes and the same signedness.
C8_IntegerWidthKept ==
    (ctype # None /\ is_int(ctype_arg) /\ ctype_arg.itemsize \in {1, 2, 4, 8}) =>
        ctype = CASE ctype_arg.itemsize = 1 ->
                        IF ctype_arg.signed THEN CT("c_int8") ELSE CT("c_uint8")
                  [] ctype_arg.itemsize = 2 ->
                        IF ctype_arg.signed THEN CT("c_int16") ELSE CT("c_uint16")
                  [] ctype_arg.itemsize = 4 ->
                        IF ctype_arg.signed THEN CT("c_int32") ELSE CT("c_uint32")
                  [] ctype_arg.itemsize = 8 ->
                        IF ctype_arg.signed THEN CT("c_int64") ELSE CT("c_uint64")

(***************************************************************************)
(* Typed IR nodes. A node is a record [kind |-> "node", cls |-> <class>,   *)
(* ...] holding the attributes its __init__ sets.                          *)
(***************************************************************************)
\* symtab.Variable: a type, an optional name, the flags and, for a constant,
\* its value
Variable(type, name, is_local, is_constant, constant_value) ==
    [type |-> type, name |-> name, is_local |-> is_local,
     is_constant |-> is_constant, constant_value |-> constant_value]

PlainVariable(type) == Variable(type, None, FALSE, FALSE, None)

CoercionNode_init(node, dst_type) ==
    [kind |-> "node", cls |-> "CoercionNode", node |-> node, dst_type |-> dst_type,
     variable |-> PlainVariable(dst_type), type |-> dst_type]

(***************************************************************************)
(* Python values handed to ConstNode: numbers carry real and imag (as      *)
(* Python's int, float and complex all do).                                *)
(***************************************************************************)
PyInt(v)        == [tag |-> "int", real |-> v, imag |-> 0]
PyFloat(v)      == [tag |-> "float", real |-> v, imag |-> 0]
PyComplex(r, i) == [tag |-> "complex", real |-> r, imag |-> i]
PyTuple         == [tag |-> "tuple"]
PyModule        == [tag |-> "module"]
PyNdarray(dt, nd, c_contig, f_contig) ==
    [tag |-> "ndarray", dtype |-> dt, ndim |-> nd,
     C_CONTIGUOUS |-> c_contig, F_CONTIGUOUS |-> f_contig]

\* pyval == 0
py_eq_zero(pyval) ==
    /\ pyval.tag \in {"int", "float", "complex"}
    /\ pyval.real = 0
    /\ pyval.imag = 0

\* NumbaTypeMapper.from_python
from_python(value) ==
    IF value.tag = "ndarray" THEN
        LET dt == _map_dtype(value.dtype)
        IN  IF IsRaise(dt) THEN dt
            ELSE ArrayType(dt, value.ndim, value.C_CONTIGUOUS, value.F_CONTIGUOUS)
    ELSE IF value.tag = "tuple" THEN tuple_
    ELSE IF value.tag = "module" THEN module_type
    ELSE [kind |-> "minivect", of |-> value.tag]  \* minitypes.TypeMapper.from_python

ConstNode_init(pyval, type) ==
    LET t == IF type = None THEN from_python(pyval) ELSE type
    IN  IF IsRaise(t) THEN t
        ELSE [kind |-> "node", cls |-> "ConstNode",
              variable |-> Variable(t, None, FALSE, TRUE, pyval),
              type |-> t, pyval |-> pyval]

\* type.to_llvm(context): the machine type, opaque here
to_llvm(type) == [llvm |-> type]

\* ConstNode.value
ConstNode_value(self) ==
    LET type     == self.type
        ltype    == to_llvm(type)
        constant == self.pyval
    IN  IF is_float(type) THEN
            [kind |-> "constant", op |-> "Constant.real", ltype |-> ltype,
             value |-> constant]
        ELSE IF is_int(type) THEN
            [kind |-> "constant", op |-> "Constant.int", ltype |-> ltype,
             value |-> constant]
        ELSE IF is_complex(type) THEN
            Raise("AttributeError")    \* self.to_llvm: no such attribute on a Node
        ELSE IF is_pointer(type) /\ py_eq_zero(self.pyval) THEN
            [kind |-> "constant", op |-> "ConstantPointerNull"]
        ELSE IF is_object(type) THEN Raise("NotImplementedError")
        ELSE IF is_function(type) THEN Raise("NotImplementedError")
        ELSE Raise("NotImplementedError")

ConstTypes ==
    ScalarTypes
    \cup {O, tuple_, pointer(O), pointer(i4), FunctionType(i4, <<i4>>), void,
          ArrayType(f8, 1, TRUE, TRUE)}
ConstValues ==
    {PyInt(0), PyInt(7), PyFloat(0), PyFloat(2), PyComplex(0, 0), PyComplex(1, 2)}
UntypedValues ==
    {PyTuple, PyModule}
    \cup {PyNdarray(dt, 2, TRUE, FALSE) :
            dt \in {[kind |-> "f", itemsize |-> 8], [kind |-> "f", itemsize |-> 2],
                    [kind |-> "i", itemsize |-> 4]}}

InitConst ==
    /\ constNode = None /\ lvalue = None
    /\ array = None /\ indices = None /\ ptr = None
    /\ callArgs = None /\ callNode = None
    /\ temp_counter = 0 /\ temps = <<>> /\ views = <<>> /\ others = <<>>
    /\ pc = <<>> /\ name_read = <<>> /\ incr_read = <<>> /\ made = <<>>
    /\ dtype = None /\ mapped = None /\ ctype_arg = None /\ ctype = None
    /\ variables = <<>> /\ coercions = <<>> /\ bound = <<>>

\* ConstNode(pyval, type)
NewConstNode(pyval, type) ==
    /\ constNode' = ConstNode_init(pyval, type)
    /\ lvalue' = None
    /\ UNCHANGED notConstVars

\* ConstNode(pyval): the type is inferred from the value
NewUntypedConstNode(pyval) ==
    /\ constNode' = ConstNode_init(pyval, None)
    /\ lvalue' = None
    /\ UNCHANGED notConstVars

\* constNode.value(builder)
Value ==
    /\ constNode.kind = "node"
    /\ lvalue' = ConstNode_value(constNode)
    /\ UNCHANGED <<constNode, notConstVars>>

NextConst ==
    \/ \E pyval \in ConstValues, type \in ConstTypes : NewConstNode(pyval, type)
    \/ \E pyval \in UntypedValues : NewUntypedConstNode(pyval)
    \/ Value

SpecConst == InitConst /\ [][NextConst]_vars

\* C10: ConstNode.value dispatches on the Type: float -> floating literal,
\* integer -> integer literal, complex -> two-field record literal of the value's
\* real and imaginary parts, pointer with value 0 -> the null pointer; every other
\* case fails with the non-materializable-constant error (NotImplementedError).
C10_ConstantDispatch ==
    lvalue # None =>
        LET type == constNode.type
        IN  CASE is_float(type) ->
                    lvalue.kind = "constant" /\ lvalue.op = "Constant.real"
              [] is_int(type) ->
                    lvalue.kind = "constant" /\ lvalue.op = "Constant.int"
              [] is_complex(type) ->
                    /\ lvalue.kind = "constant"
                    /\ lvalue.op = "Constant.struct"
                    /\ lvalue.fields = <<constNode.pyval.real, constNode.pyval.imag>>
              [] is_pointer(type) /\ py_eq_zero(constNode.pyval) ->
                    lvalue.kind = "constant" /\ lvalue.op = "ConstantPointerNull"
              [] OTHER ->
                    lvalue.kind = "raise" /\ lvalue.exc = "NotImplementedError"

(***************************************************************************)
(* Call nodes                                                              *)
(***************************************************************************)
FunctionCallNode_init(signature, args) ==
    LET pairs == zip(signature.args, args)
    IN  [kind |-> "node", cls |-> "FunctionCallNode", signature |-> signature,
         args |-> [i \in DOMAIN pairs |-> CoercionNode_init(pairs[i][2], pairs[i][1])],
         variable |-> PlainVariable(signature.return_type)]

NativeCallNode_init(signature, args, llvm_func, py_func) ==
    LET super == FunctionCallNode_init(signature, args)
    IN  [kind |-> "node", cls |-> "NativeCallNode", signature |-> super.signature,
         args |-> super.args, variable |-> super.variable,
         llvm_func |-> llvm_func, py_func |-> py_func]

ObjectCallNode_init(signature, call_node, py_func) ==
    LET super == FunctionCallNode_init(signature, call_node.args)
        kwargs ==
            IF call_node.keywords # <<>>
            THEN [kind |-> "node", cls |-> "ast.Dict",
                  keys |-> [i \in DOMAIN call_node.keywords |-> call_node.keywords[i].arg],
                  values |-> [i \in DOMAIN call_node.keywords |-> call_node.keywords[i].value],
                  variable |-> PlainVariable(O)]
            ELSE ConstNode_init(PyInt(0), pointer(O))
    IN  [kind |-> "node", cls |-> "ObjectCallNode", signature |-> super.signature,
         args |-> super.args, variable |-> super.variable,
         function |-> call_node.func, kwargs |-> kwargs, py_func |-> py_func]

ParamTypes == {i4, f8}
ReturnTypes == {i4, void}
ArgNodes == {"x", "y"}
SeqsUpTo(S, n) == UNION { [1..k -> S] : k \in 0..n }
Signatures ==
    { [args |-> a, return_type |-> r] : a \in SeqsUpTo(ParamTypes, MaxArgs), r \in ReturnTypes }
KeywordLists == { <<>>, <<[arg |-> "k", value |-> "x"]>> }

\* The signature and the call's arguments are drawn; no node is built yet.
InitCall ==
    /\ callArgs \in [signature : Signatures, args : SeqsUpTo(ArgNodes, MaxArgs),
                      keywords : KeywordLists]
    /\ callNode = None
    /\ array = None /\ indices = None /\ ptr = None
    /\ temp_counter = 0 /\ temps = <<>> /\ views = <<>> /\ others = <<>>
    /\ pc = <<>> /\ name_read = <<>> /\ incr_read = <<>> /\ made = <<>>
    /\ dtype = None /\ mapped = None /\ ctype_arg = None /\ ctype = None
    /\ variables = <<>> /\ coercions = <<>> /\ bound = <<>>
    /\ constNode = None /\ lvalue = None

NewFunctionCallNode ==
    /\ callNode = None
    /\ callNode' = FunctionCallNode_init(callArgs.signature, callArgs.args)
    /\ UNCHANGED <<callArgs, notCallVars>>

NewNativeCallNode ==
    /\ callNode = None
    /\ callNode' = NativeCallNode_init(callArgs.signature, callArgs.args, "llvm_func", None)
    /\ UNCHANGED <<callArgs, notCallVars>>

NewObjectCallNode ==
    /\ callNode = None
    /\ callNode' = ObjectCallNode_init(callArgs.signature,
                        [func |-> "f", args |-> callArgs.args,
                         keywords |-> callArgs.keywords], None)
    /\ UNCHANGED <<callArgs, notCallVars>>

NextCall == NewFunctionCallNode \/ NewNativeCallNode \/ NewObjectCallNode

SpecCall == InitCall /\ [][NextCall]_vars

\* C4: constructing a call node (FunctionCallNode, NativeCallNode, ObjectCallNode)
\* whose number of supplied arguments differs from the number of parameter types
\* of the signature fails with ArityMismatch and constructs no node.
C4_ArityMismatchRejected ==
    (callNode # None /\ Len(callArgs.args) # Len(callArgs.signature.args)) =>
        /\ callNode.kind = "raise"
        /\ callNode.exc = "ArityMismatch"

(***************************************************************************)
(* Coercions. A Variable that already exists when a node is constructed    *)
(* lives in the heap `variables` and is held by reference, [ref |-> its    *)
(* index]; a Variable a node creates for itself is held in the node.       *)
(***************************************************************************)
\* a variant that copies the variable's type as it is at construction
DeferredCoercionNode_init_snapshot(node, variable) ==
    [kind |-> "node", cls |-> "DeferredCoercionNode", node |-> node,
     variable |-> PlainVariable(variables[variable.ref].type)]

DeferredCoercionNode_init(node, variable) ==
    [kind |-> "node", cls |-> "DeferredCoercionNode", node |-> node,
     variable |-> variable]

\* node.variable.type, read through the reference if the node holds one
variable_type(node) ==
    IF "ref" \in DOMAIN node.variable
    THEN variables[node.variable.ref].type
    ELSE node.variable.type

CoercionTypes == {i4, f8, c16}
CoercedNodes == {"x"}

InitCoercion ==
    /\ variables = <<>> /\ coercions = <<>> /\ bound = <<>>
    /\ array = None /\ indices = None /\ ptr = None
    /\ callArgs = None /\ callNode = None
    /\ temp_counter = 0 /\ temps = <<>> /\ views = <<>> /\ others = <<>>
    /\ pc = <<>> /\ name_read = <<>> /\ incr_read = <<>> /\ made = <<>>
    /\ dtype = None /\ mapped = None /\ ctype_arg = None /\ ctype = None
    /\ constNode = None /\ lvalue = None

\* the symbol table creates a Variable of some type
NewVariable(type) ==
    /\ Len(variables) < MaxVariables
    /\ variables' = Append(variables, PlainVariable(type))
    /\ UNCHANGED <<coercions, bound, notCoercionVars>>

\* CoercionNode(node, dst_type)
NewCoercionNode(node, dst_type) ==
    /\ Len(coercions) < MaxCoercions
    /\ coercions' = Append(coercions, CoercionNode_init(node, dst_type))
    /\ bound' = Append(bound, [dst_type |-> dst_type])
    /\ UNCHANGED <<variables, notCoercionVars>>

\* DeferredCoercionNode(node, variable), variable being variables[v]
NewDeferredCoercionNode(node, v) ==
    /\ Len(coercions) < MaxCoercions
    /\ coercions' = Append(coercions, DeferredCoercionNode_init(node, [ref |-> v]))
    /\ bound' = Append(bound, [variable |-> v, type_then |-> variables[v].type])
    /\ UNCHANGED <<variables, notCoercionVars>>

\* type inference promotes or demotes variables[v]
SetVariableType(v, type) ==
    /\ variables[v].type # type
    /\ variables' = [variables EXCEPT ![v].type = type]
    /\ UNCHANGED <<coercions, bound, notCoercionVars>>

\* the same for the Variable a CoercionNode made for itself
SetOwnVariableType(n, type) ==
    /\ "ref" \notin DOMAIN coercions[n].variable
    /\ coercions[n].variable.type # type
    /\ coercions' = [coercions EXCEPT ![n].variable.type = type]
    /\ UNCHANGED <<variables, bound, notCoercionVars>>

NextCoercion ==
    \/ \E type \in CoercionTypes : NewVariable(type)
    \/ \E node \in CoercedNodes, dst_type \in CoercionTypes : NewCoercionNode(node, dst_type)
    \/ \E node \in CoercedNodes, v \in DOMAIN variables : NewDeferredCoercionNode(node, v)
    \/ \E v \in DOMAIN variables, type \in CoercionTypes : SetVariableType(v, type)
    \/ \E n \in DOMAIN coercions, type \in CoercionTypes : SetOwnVariableType(n, type)

SpecCoercion == InitCoercion /\ [][NextCoercion]_vars

\* C9: a DeferredCoercionNode holds no target Type of its own: whatever happened
\* to the Types of the Variables since, its target Type read through
\* node.variable is the current Type of the Variable it was constructed with;
\* a plain CoercionNode's dst_type stays the one given at construction.
C9_DeferredFollowsVariable ==
    \A n \in DOMAIN coercions :
        IF coercions[n].cls = "DeferredCoercionNode"
        THEN /\ DOMAIN coercions[n] \cap {"dst_type", "type"} = {}
             /\ variable_type(coercions[n]) = variables[bound[n].variable].type
        ELSE /\ coercions[n].dst_type = bound[n].dst_type
             /\ coercions[n].type = bound[n].dst_type

\* a deferred node whose variable's Type is no longer the one it had at
\* construction, next to a plain CoercionNode whose own Variable was retyped
C9_Witness ==
    \E n, m \in DOMAIN coercions :
        /\ coercions[n].cls = "DeferredCoercionNode"
        /\ variables[bound[n].variable].type # bound[n].type_then
        /\ variable_type(coercions[n]) # bound[n].type_then
        /\ coercions[m].cls = "CoercionNode"
        /\ coercions[m].variable.type # coercions[m].dst_type

(***************************************************************************)
(* Temporaries                                                             *)
(***************************************************************************)
Digit(d) == <<"0", "1", "2", "3", "4", "5", "6", "7", "8", "9">>[d + 1]

\* '%d' % n for n >= 0: the decimal digits of n
RECURSIVE format_d(_)
format_d(n) == IF n < 10 THEN <<Digit(n)>> ELSE Append(format_d(n \div 10), Digit(n % 10))

\* '___numba_%d' % n
temp_name(n) == <<"___numba_">> \o format_d(n)

\* TempNode.temp_counter += 1
temp_counter_kept(counter) == counter
temp_counter_incremented(counter) == counter + 1

\* TempNode.__init__ up to line 143, the counter read as self.temp_counter
TempNode_init(type, counter) ==
    [kind |-> "node", cls |-> "TempNode", type |-> type,
     variable |-> Variable(type, temp_name(counter), TRUE, FALSE, None),
     llvm_temp |-> None]

\* temp.load() and temp.store(): the view refers back to the temp
load(temp) == [kind |-> "node", cls |-> "TempLoadNode", temp |-> temp]
store(temp) == [kind |-> "node", cls |-> "TempStoreNode", temp |-> temp]

ObjectTempNode_init(node) ==
    [kind |-> "node", cls |-> "ObjectTempNode", node |-> node, llvm_temp |-> None]

TempTypes == {i4}

InitTemp ==
    /\ temp_counter = 0 /\ temps = <<>> /\ views = <<>> /\ others = <<>>
    /\ array = None /\ indices = None /\ ptr = None
    /\ callArgs = None /\ callNode = None
    /\ pc = <<>> /\ name_read = <<>> /\ incr_read = <<>> /\ made = <<>>
    /\ dtype = None /\ mapped = None /\ ctype_arg = None /\ ctype = None
    /\ variables = <<>> /\ coercions = <<>> /\ bound = <<>>
    /\ constNode = None /\ lvalue = None

\* TempNode(type)
NewTempNode(type) ==
    /\ Len(temps) < MaxTemps
    /\ temps' = Append(temps, TempNode_init(type, temp_counter))
    /\ temp_counter' = temp_counter_incremented(temp_counter)
    /\ UNCHANGED <<views, others, notTempVars>>

\* temps[t].load()
Load(t) ==
    /\ Len(views) < MaxViews
    /\ views' = Append(views, load(t))
    /\ UNCHANGED <<temp_counter, temps, others, notTempVars>>

\* temps[t].store()
Store(t) ==
    /\ Len(views) < MaxViews
    /\ views' = Append(views, store(t))
    /\ UNCHANGED <<temp_counter, temps, others, notTempVars>>

\* ObjectTempNode(node)
NewObjectTempNode(node) ==
    /\ Len(others) < MaxOthers
    /\ others' = Append(others, ObjectTempNode_init(node))
    /\ UNCHANGED <<temp_counter, temps, views, notTempVars>>

NextTemp ==
    \/ \E type \in TempTypes : NewTempNode(type)
    \/ \E t \in DOMAIN temps : Load(t)
    \/ \E t \in DOMAIN temps : Store(t)
    \/ \E node \in CoercedNodes : NewObjectTempNode(node)

SpecTemp == InitTemp /\ [][NextTemp]_vars

\* C5: after any sequence of TempNode creations interleaved with load()/store()
\* views and other node constructions, the Temporaries created so far have
\* pairwise distinct variable names, and the counter has grown by exactly one
\* per TempNode created.
C5_TemporaryNamesDistinct ==
    /\ \A i, j \in DOMAIN temps :
          i # j => temps[i].variable.name # temps[j].variable.name
    /\ temp_counter = Len(temps)

C5_Witness ==
    /\ Len(temps) >= 11
    /\ views # <<>>
    /\ others # <<>>
    /\ temps[2].variable.name = <<"___numba_", "1">>
    /\ temps[11].variable.name = <<"___numba_", "1", "0">>

(***************************************************************************)
(* TempNode(type) run by parallel compilation threads: the interpreter may *)
(* switch threads between the read of self.temp_counter for the name       *)
(* (line 142) and the load and the store of TempNode.temp_counter += 1     *)
(* (line 144).                                                             *)
(***************************************************************************)
Threads == {1, 2}

InitThreads ==
    /\ temp_counter = 0
    /\ pc = [t \in Threads |-> "idle"]
    /\ name_read = [t \in Threads |-> 0]
    /\ incr_read = [t \in Threads |-> 0]
    /\ made = [t \in Threads |-> <<>>]
    /\ temps = <<>> /\ views = <<>> /\ others = <<>>
    /\ array = None /\ indices = None /\ ptr = None
    /\ callArgs = None /\ callNode = None
    /\ dtype = None /\ mapped = None /\ ctype_arg = None /\ ctype = None
    /\ variables = <<>> /\ coercions = <<>> /\ bound = <<>>
    /\ constNode = None /\ lvalue = None

\* line 142: the name is made from self.temp_counter
ReadName(t) ==
    /\ pc[t] = "idle"
    /\ Len(made[t]) < MaxPerThread
    /\ name_read' = [name_read EXCEPT ![t] = temp_counter]
    /\ pc' = [pc EXCEPT ![t] = "named"]
    /\ UNCHANGED <<temp_counter, incr_read, made, notThreadVars>>

\* line 144, first half: TempNode.temp_counter is loaded
LoadCounter(t) ==
    /\ pc[t] = "named"
    /\ incr_read' = [incr_read EXCEPT ![t] = temp_counter]
    /\ pc' = [pc EXCEPT ![t] = "loaded"]
    /\ UNCHANGED <<temp_counter, name_read, made, notThreadVars>>

\* line 144, second half: the sum is stored; the node is complete
StoreCounter(t) ==
    /\ pc[t] = "loaded"
    /\ temp_counter' = temp_counter_incremented(incr_read[t])
    /\ made' = [made EXCEPT ![t] =
                  Append(@, TempNode_init(i4, name_read[t]).variable.name)]
    /\ pc' = [pc EXCEPT ![t] = "idle"]
    /\ UNCHANGED <<name_read, incr_read, notThreadVars>>

NextThreads ==
    \/ \E t \in Threads : ReadName(t)
    \/ \E t \in Threads : LoadCounter(t)
    \/ \E t \in Threads : StoreCounter(t)

SpecThreads == InitThreads /\ [][NextThreads]_vars

\* C6: under every interleaving, each compilation thread's Temporaries get the
\* names they would get if that thread ran alone: its k-th Temporary is named
\* ___numba_<k-1>.
C6_NamesPerTask ==
    \A t \in Threads : \A k \in DOMAIN made[t] : made[t][k] = temp_name(k - 1)

(***************************************************************************)
(* Address calculator: DataPointerNode.subscript                           *)
(***************************************************************************)
StrideVals == {4, 8}
DataPointers == {0, 4096}
IndexVals == {0, 3, 5}
ElemTypes == {i4, f8}

\* A DataPointerNode over an array variable of type dtype[ndim], together with
\* the runtime array its lvalue points to (data pointer, strides of length ndim).
DataPointerNodes ==
    UNION { { [type |-> [dtype |-> dt, ndim |-> r], data |-> d, strides |-> s] :
                dt \in ElemTypes, d \in DataPointers, s \in [1..r -> StrideVals] } :
            r \in 1..MaxRank }

\* The index arguments: a single (non-iterable) index, or a tuple of indices
IndexArgs ==
    { [tag |-> "scalar", index |-> i] : i \in IndexVals }
    \cup UNION { { [tag |-> "tuple", items |-> s] : s \in [1..n -> IndexVals] } :
                 n \in 1..(MaxRank + 1) }

_const_int(X) == X

ndim(self) == self.type.ndim

data_descriptors(self) == [dptr |-> self.data, strides |-> self.strides]

\* lines 197-198: a non-iterable index becomes a 1-tuple
as_tuple(idx) == IF idx.tag = "scalar" THEN <<idx.index>> ELSE idx.items

\* the dimension numbers the loop of line 200 walks
dimensions_descending(n) == [i \in 1..n |-> n - i]
dimensions(n) == range(n)

\* the order the loop of line 200 takes the indices in
indices_forward(s) == s
indices_order(s) == reversed(s)

\* lines 200-206: offset += index * strides[i] for each pair (i, index)
RECURSIVE subscript_loop(_, _, _)
subscript_loop(pairs, strides, offset) ==
    IF pairs = <<>> THEN offset
    ELSE LET i      == Head(pairs)[1]
             index  == Head(pairs)[2]
             stride == strides[i + 1]
         IN  subscript_loop(Tail(pairs), strides, offset + index * stride)

subscript(self, idx) ==
    LET dd     == data_descriptors(self)
        pairs  == zip(dimensions(ndim(self)), indices_order(as_tuple(idx)))
        offset == subscript_loop(pairs, dd.strides, _const_int(0))
    IN  [kind |-> "ptr", addr |-> dd.dptr + offset, to |-> self.type.dtype]

\* The node and the index argument are drawn; subscript has not been called yet.
Init ==
    /\ array \in DataPointerNodes /\ indices \in IndexArgs /\ ptr = None
    /\ callArgs = None /\ callNode = None
    /\ temp_counter = 0 /\ temps = <<>> /\ views = <<>> /\ others = <<>>
    /\ pc = <<>> /\ name_read = <<>> /\ incr_read = <<>> /\ made = <<>>
    /\ dtype = None /\ mapped = None /\ ctype_arg = None /\ ctype = None
    /\ variables = <<>> /\ coercions = <<>> /\ bound = <<>>
    /\ constNode = None /\ lvalue = None

\* array.subscript(translator, indices)
Subscript ==
    /\ ptr = None
    /\ ptr' = subscript(array, indices)
    /\ UNCHANGED <<array, indices, notSubVars>>

Next == Subscript

Spec == Init /\ [][Next]_vars

(***************************************************************************)
(* Claims about the address calculator (checked under Spec).               *)
(***************************************************************************)
\* sum over d in 0..r-1 of s[r-1-d] * strides[d], written with 1-based tuples
RECURSIVE ReversedPairingOffset(_, _, _)
ReversedPairingOffset(s, strides, d) ==
    IF d = Len(strides) THEN 0
    ELSE s[Len(s) - d] * strides[d + 1] + ReversedPairingOffset(s, strides, d + 1)

Subscripted == ptr # None

\* C1: an array of rank r subscripted with exactly r indices yields the address
\* dataPointer + sum over d in 0..r-1 of indices[r-1-d] * strides[d]; with
\* strides [8, 4] and indices (3, 5) that is dataPointer + 52.
C1_FullRankAddress ==
    (Subscripted /\ Len(as_tuple(indices)) = ndim(array)) =>
        /\ ptr.kind = "ptr"
        /\ ptr.addr = array.data
                        + ReversedPairingOffset(as_tuple(indices), array.strides, 0)
        /\ (array.strides = <<8, 4>> /\ as_tuple(indices) = <<3, 5>>
              => ptr.addr = array.data + 52)

C1_Witness ==
    /\ Subscripted
    /\ array.strides = <<8, 4>>
    /\ indices = [tag |-> "tuple", items |-> <<3, 5>>]
    /\ ptr.addr = array.data + 52

\* C2 as stated: a rank-3 array subscripted with a single index yields
\* dataPointer + index * strides[2].
C2_AsStated ==
    (Subscripted /\ ndim(array) = 3 /\ Len(as_tuple(indices)) = 1) =>
        ptr.addr = array.data + as_tuple(indices)[1] * array.strides[3]

\* C2 (amended): a rank-3 array subscripted with a single index yields
\* dataPointer + index * strides[0]: the one index is paired with dimension 0.
C2_PartialIndexAddress ==
    (Subscripted /\ ndim(array) = 3 /\ Len(as_tuple(indices)) = 1) =>
        /\ ptr.kind = "ptr"
        /\ ptr.addr = array.data + as_tuple(indices)[1] * array.strides[1]

C2_Witness ==
    /\ Subscripted
    /\ ndim(array) = 3
    /\ array.strides = <<8, 4, 4>>
    /\ indices = [tag |-> "scalar", index |-> 5]
    /\ ptr.addr = array.data + 40

\* C3: subscripting with more indices than the rank fails with RankMismatch
\* and yields no element pointer.
C3_SurplusIndicesRejected ==
    (Subscripted /\ Len(as_tuple(indices)) > ndim(array)) =>
        /\ ptr.kind = "raise"
        /\ ptr.exc = "RankMismatch"

=============================================================================
